---------------------------- MODULE Spec2Model ----------------------------
(***************************************************************************)
(* A model of stock_sentiment_analyzer.py: the Streamlit dashboard that    *)
(* fetches news headlines and daily price bars for a selected company,     *)
(* scores the headlines, and renders an advisory, three metrics, a chart   *)
(* and a headline table.                                                   *)
(*                                                                         *)
(* Numbers.  Sentiment polarities are held in hundredths (0.05 is 5), a    *)
(* mean is the exact rational sum/count, and a formatted number is the     *)
(* integer of its last printed digit ("0.20" is 20, "-3.3%" is -33).       *)
(* Time.  A datetime is [day, hm, sec]: the calendar day, the minute of    *)
(* the day and the second.                                                 *)
(***************************************************************************)
EXTENDS Integers, Sequences, FiniteSets, TLC

VARIABLES
    companies,        \* analyzer.companies, the registry (line 26)
    secret_key,       \* NEWS_API_KEY is set in the secrets store or the environment
    sidebar_key,      \* the sidebar's key field holds a non-empty text
    selected_sector,  \* the sector selectbox
    selected_ticker,  \* the company selectbox
    button,           \* st.sidebar.button("Analyze") in the current script run
    pc,               \* where main() is: "idle" between runs, else the next call
    news,             \* what the news endpoint answered in this run
    prices,           \* what the market-data endpoint answered in this run
    headlines,        \* main's local `headlines`
    sentiment_df,     \* main's local `sentiment_df`
    stock_df,         \* main's local `stock_df`
    advice,           \* the advisory header shown
    metrics,          \* the three metric cells shown
    chart,            \* the chart, or the notice shown in its place
    table,            \* the headline table, or the notice shown in its place
    error,            \* the st.error message of the controller's handler
    newsRequests,     \* requests.get calls issued in this run
    stockRequests     \* stock.history calls issued in this run

vars == <<companies, secret_key, sidebar_key, selected_sector, selected_ticker,
          button, pc, news, prices, headlines, sentiment_df, stock_df,
          advice, metrics, chart, table, error, newsRequests, stockRequests>>

---------------------------------------------------------------------------
(* Bounds of the model. *)

\* articles in one news response (the fetch specification)
MaxArticles == 3
\* headlines handed to the advisory, metrics, chart and table (the render specification)
MaxHeadlines == 3
\* price bars handed to the advisory, metrics and chart (the render specification)
MaxBars == 2
\* articles in one news response of the dashboard specification
CtlMaxArticles == 1
\* price bars in one market-data answer of the dashboard specification
CtlMaxBars == 2

---------------------------------------------------------------------------
(* Helpers. *)

Abs(x) == IF x < 0 THEN -x ELSE x

Max2(a, b) == IF a >= b THEN a ELSE b

Min2(a, b) == IF a <= b THEN a ELSE b

SeqsUpTo(S, n) == UNION {[1..k -> S] : k \in 0..n}

RECURSIVE SumSeq(_)
SumSeq(s) == IF s = <<>> THEN 0 ELSE Head(s) + SumSeq(Tail(s))

Column(df, f) == [i \in 1..Len(df) |-> df[i][f]]

RECURSIVE SortAsc(_)
SortAsc(S) ==
    IF S = {} THEN <<>>
    ELSE LET m == CHOOSE x \in S : \A y \in S : x <= y
         IN  <<m>> \o SortAsc(S \ {m})

---------------------------------------------------------------------------
(* The company registry. *)

Company(name, ticker, sector) == [name |-> name, ticker |-> ticker, sector |-> sector]

CompanyList ==
    << Company("Apple Inc", "AAPL", "Technology"),
       Company("Microsoft Corp", "MSFT", "Technology"),
       Company("Alphabet Inc", "GOOGL", "Technology"),
       Company("Tesla Inc", "TSLA", "Automotive"),
       Company("Amazon.com Inc", "AMZN", "E-commerce"),
       Company("Meta Platforms Inc", "META", "Technology"),
       Company("NVIDIA Corporation", "NVDA", "Technology"),
       Company("JPMorgan Chase & Co", "JPM", "Financial Services"),
       Company("Bank of America Corp", "BAC", "Financial Services"),
       Company("Walmart Inc", "WMT", "Retail"),
       Company("Procter & Gamble Co", "PG", "Consumer Goods"),
       Company("Johnson & Johnson", "JNJ", "Healthcare"),
       Company("UnitedHealth Group Inc", "UNH", "Healthcare"),
       Company("Exxon Mobil Corp", "XOM", "Energy"),
       Company("Chevron Corporation", "CVX", "Energy"),
       Company("Coca-Cola Co", "KO", "Beverages"),
       Company("PepsiCo Inc", "PEP", "Beverages"),
       Company("Walt Disney Co", "DIS", "Entertainment"),
       Company("Netflix Inc", "NFLX", "Entertainment"),
       Company("Adobe Inc", "ADBE", "Technology") >>

\* the dict built by __init__: ticker -> Company
Registry ==
    [t \in {CompanyList[i].ticker : i \in 1..Len(CompanyList)} |->
        CHOOSE c \in {CompanyList[i] : i \in 1..Len(CompanyList)} : c.ticker = t]

\* ["All"] + sorted(set(sectors))
Sectors(reg) == {"All"} \cup {reg[t].sector : t \in DOMAIN reg}

\* filtered_companies: the tickers offered by the company selectbox, in dict order
RECURSIVE FilterList(_, _, _)
FilterList(reg, sector, list) ==
    IF list = <<>> THEN <<>>
    ELSE LET t == Head(list).ticker
             rest == FilterList(reg, sector, Tail(list))
         IN  IF t \in DOMAIN reg /\ (sector = "All" \/ reg[t].sector = sector)
             THEN <<t>> \o rest ELSE rest

filtered_companies(reg, sector) == FilterList(reg, sector, CompanyList)

\* analyzer.api_key after lines 25 and 185-188, as its truth value
api_key == secret_key \/ sidebar_key

---------------------------------------------------------------------------
(* JSON values of a news response, and datetimes. *)

Time(day, hm, sec) == [day |-> day, hm |-> hm, sec |-> sec]

\* 2024-01-01 09:30:15, 2024-01-01 15:00:00, 2024-01-02 10:05:40
SampleTimes == {Time(1, 570, 15), Time(1, 900, 0), Time(2, 605, 40)}

TimeKey(t) == (t.day * 1440 + t.hm) * 60 + t.sec

JsonNull == [json |-> "null"]

JsonAbsent == [json |-> "absent"]

\* a string that spells time t in the layout fmt: "iso_z" is YYYY-MM-DDTHH:MM:SSZ,
\* "iso_frac" carries fractional seconds (2024-01-01T09:30:15.123Z)
JsonTime(fmt, t) == [json |-> "string", fmt |-> fmt, t |-> t]

JsonText(s) == [json |-> "string", text |-> s]

\* datetime.strptime(value, '%Y-%m-%dT%H:%M:%SZ') on article['publishedAt']
strptime(article) ==
    LET v == article.publishedAt
    IN  IF v.json = "absent" THEN [raised |-> "KeyError"]
        ELSE IF v.json = "null" THEN [raised |-> "TypeError"]
        ELSE IF v.fmt # "iso_z" THEN [raised |-> "ValueError"]
        ELSE [raised |-> "none", value |-> v.t]

\* TextBlob(title).sentiment.polarity in hundredths, on the sample titles
Polarity(text) ==
    CASE text = "Shares plunge on weak outlook" -> -40
      [] text = "Company holds steady" -> 4
      [] text = "Modest gains reported" -> 6
      [] OTHER -> 0

SampleTitles ==
    {"Shares plunge on weak outlook", "Company holds steady", "Modest gains reported"}

\* lines 92-95 for one article: the tuple appended, or the exception raised
ProcessArticle(article) ==
    LET d == strptime(article)
        w == article.title
    IN  IF d.raised # "none" THEN [raised |-> d.raised]
        ELSE IF w.json = "absent" THEN [raised |-> "KeyError"]
        ELSE IF w.json = "null" THEN [raised |-> "TypeError"]
        ELSE [raised |-> "none", value |-> <<d.value, w.text, Polarity(w.text)>>]

\* the for loop of lines 90-98: ValueError and KeyError skip the article, any
\* other exception leaves the loop
RECURSIVE ArticleLoop(_, _)
ArticleLoop(articles, acc) ==
    IF articles = <<>> THEN [raised |-> "none", value |-> acc]
    ELSE LET r == ProcessArticle(Head(articles))
         IN  IF r.raised = "none"
             THEN ArticleLoop(Tail(articles), Append(acc, r.value))
             ELSE IF r.raised \in {"ValueError", "KeyError"}
             THEN ArticleLoop(Tail(articles), acc)
             ELSE [raised |-> r.raised]

\* what the endpoint can answer: requests.get raises (network error, timeout),
\* raise_for_status raises (non-2xx), or a JSON body with a status and articles
NewsFailures ==
    {[kind |-> "request_exception"], [kind |-> "http_error"]}

NewsBody(status, articles) == [kind |-> "json", status |-> status, articles |-> articles]

\* a list left over from the call before
StaleList == headlines

\* line 67: headlines = []
FreshList == <<>>

\* fetch_news_headlines: the list returned
fetch_news_headlines(key, answer) ==
    IF ~key THEN <<>>
    ELSE IF answer.kind # "json" THEN <<>>
    ELSE IF answer.status # "ok" THEN <<>>
    ELSE LET r == ArticleLoop(answer.articles, FreshList)
         IN  IF r.raised = "none" THEN r.value ELSE <<>>

\* requests.get calls made by one fetch_news_headlines call
NewsRequestsIssued(key) == IF key THEN 1 ELSE 0

\* analyze_sentiment: tuples to rows
analyze_sentiment(hs) ==
    [i \in 1..Len(hs) |->
        [date |-> hs[i][1], headline |-> hs[i][2], sentiment |-> hs[i][3]]]

---------------------------------------------------------------------------
(* Market data. *)

\* one daily bar of the history table, indexed by its date
Bar(date, open, close) ==
    [date |-> date, Open |-> open, High |-> Max2(open, close),
     Low |-> Min2(open, close), Close |-> close]

StockFailure == [kind |-> "exception"]

StockTable(bars) == [kind |-> "table", bars |-> bars]

\* get_stock_data: the rows returned, each with its 'Date' column
get_stock_data(answer) ==
    IF answer.kind # "table" THEN <<>>
    ELSE IF answer.bars = <<>> THEN <<>>
    ELSE [i \in 1..Len(answer.bars) |->
            [date |-> answer.bars[i].date, Open |-> answer.bars[i].Open,
             High |-> answer.bars[i].High, Low |-> answer.bars[i].Low,
             Close |-> answer.bars[i].Close, Date |-> answer.bars[i].date]]

---------------------------------------------------------------------------
(* The advisory. *)

\* 0.05 and 0.04 in hundredths
BuyThreshold == 5

SellThreshold == 4

\* the comparison with >= in place of >
MeanAtLeast(num, den, h) == num >= h * den

\* a rational num/den (den > 0) against an integer number of hundredths
MeanAbove(num, den, h) == num > h * den

MeanBelow(num, den, h) == num < h * den

\* the advisory without the len(stock_df) < 2 test
get_trading_advice_any_length(sdf, stock) ==
    IF Len(sdf) = 0 \/ Len(stock) = 0
    THEN <<"NO ADVICE", "gray">>
    ELSE LET total == SumSeq(Column(sdf, "sentiment"))
             n == Len(sdf)
         IN  IF MeanAbove(total, n, BuyThreshold) THEN <<"BUYING ADVISED", "green">>
             ELSE IF MeanBelow(total, n, SellThreshold) THEN <<"SELLING ADVISED", "red">>
             ELSE <<"HOLD POSITION", "orange">>

\* get_trading_advice: <<label, color>>
get_trading_advice(sdf, stock) ==
    IF Len(sdf) = 0 \/ Len(stock) = 0 \/ Len(stock) < 2
    THEN <<"NO ADVICE", "gray">>
    ELSE LET total == SumSeq(Column(sdf, "sentiment"))
             n == Len(sdf)
         IN  IF MeanAbove(total, n, BuyThreshold) THEN <<"BUYING ADVISED", "green">>
             ELSE IF MeanBelow(total, n, SellThreshold) THEN <<"SELLING ADVISED", "red">>
             ELSE <<"HOLD POSITION", "orange">>

---------------------------------------------------------------------------
(* The metrics. *)

\* the number cut off below instead of rounded
FormatFloor(num, den) == {num \div den}

\* f"{x:.Nf}" of the rational num/den (den > 0) counted in units of the last
\* printed digit: the nearest integer.  A float decides an exact tie by its
\* binary expansion, which the rationals do not hold: either neighbour.
FormatFixed(num, den) ==
    LET f == num \div den
    IN  {q \in {f, f + 1} : 2 * Abs(q * den - num) <= den}

\* the "Average Sentiment" cell (lines 217-218): the texts it can show
AverageSentimentCell(sdf) ==
    IF Len(sdf) = 0 THEN {[text |-> "N/A"]}
    ELSE {[text |-> "number", value |-> q] :
            q \in FormatFixed(SumSeq(Column(sdf, "sentiment")), Len(sdf))}

\* the "Headlines Analyzed" cell (line 220)
HeadlinesAnalyzedCell(hs) == Len(hs)

\* the "Stock Performance" cell (lines 222-224), in tenths of a percent:
\* ((last / first) - 1) * 100 is 100 * (last - first) / first
StockPerformanceCell(stock) ==
    IF Len(stock) = 0 \/ ~(Len(stock) > 1) THEN {[shown |-> FALSE]}
    ELSE LET first == stock[1].Close
             last == stock[Len(stock)].Close
         IN  {[shown |-> TRUE, value |-> q] :
                q \in FormatFixed(1000 * (last - first), first)}

---------------------------------------------------------------------------
(* The chart. *)

\* the rows of one calendar day, in frame order
DayRows(sdf, d) ==
    LET OnDay(r) == r.date.day = d
    IN  SelectSeq(sdf, OnDay)

\* every day given the mean of the whole frame
daily_sentiment_ungrouped(sdf) ==
    LET days == SortAsc({sdf[i].date.day : i \in 1..Len(sdf)})
    IN  [k \in 1..Len(days) |->
            [date |-> days[k],
             sum |-> SumSeq(Column(sdf, "sentiment")),
             count |-> Len(sdf)]]

\* groupby(date.dt.date)['sentiment'].mean().reset_index(): one row per day in
\* ascending day order, the mean held as sum over count
daily_sentiment(sdf) ==
    LET days == SortAsc({sdf[i].date.day : i \in 1..Len(sdf)})
    IN  [k \in 1..Len(days) |->
            [date |-> days[k],
             sum |-> SumSeq(Column(DayRows(sdf, days[k]), "sentiment")),
             count |-> Len(DayRows(sdf, days[k]))]]

\* the Candlestick trace of lines 145-155
Candlestick(stock) ==
    [x |-> Column(stock, "date"), open |-> Column(stock, "Open"),
     high |-> Column(stock, "High"), low |-> Column(stock, "Low"),
     close |-> Column(stock, "Close")]

\* the Scatter trace of lines 157-168; no trace is an empty row
SentimentRow(sdf) == IF Len(sdf) = 0 THEN <<>> ELSE daily_sentiment(sdf)

\* create_visualization: None, or the figure
create_visualization(stock, sdf, company_name) ==
    IF Len(stock) = 0 THEN [fig |-> "None"]
    ELSE [fig |-> "Figure",
          title |-> <<company_name, "Market Analysis Dashboard">>,
          row1 |-> Candlestick(stock),
          row2 |-> SentimentRow(sdf)]

\* lines 227-230: the chart, or the warning in its place
ChartOrNotice(fig) ==
    IF fig.fig # "None" THEN [kind |-> "plotly_chart", fig |-> fig]
    ELSE [kind |-> "warning", text |-> "Insufficient data for visualization."]

---------------------------------------------------------------------------
(* The headline table. *)

\* sort_values('date', ascending=False): insertion of each row before the first
\* row that is not later than it
RECURSIVE InsertDesc(_, _)
InsertDesc(row, sorted) ==
    IF sorted = <<>> THEN <<row>>
    ELSE IF TimeKey(Head(sorted).date) >= TimeKey(row.date)
         THEN <<Head(sorted)>> \o InsertDesc(row, Tail(sorted))
         ELSE <<row>> \o sorted

RECURSIVE SortDesc(_, _)
SortDesc(df, acc) ==
    IF df = <<>> THEN acc ELSE SortDesc(Tail(df), InsertDesc(Head(df), acc))

\* dt.strftime('%Y-%m-%d %H:%M'): the day and the minute, the seconds dropped
strftime(t) == [day |-> t.day, hm |-> t.hm]

\* lines 232-241: the table, or the notice in its place
HeadlineTable(sdf) ==
    IF Len(sdf) # 0
    THEN LET display_df == SortDesc(sdf, <<>>)
         IN  [kind |-> "dataframe",
              rows |-> [i \in 1..Len(display_df) |->
                          [date |-> strftime(display_df[i].date),
                           headline |-> display_df[i].headline,
                           sentiment |-> display_df[i].sentiment]]]
    ELSE [kind |-> "info", text |-> "No headlines available for the selected period."]

---------------------------------------------------------------------------
(* The inputs the environment can supply. *)

Article(published, title) == [publishedAt |-> published, title |-> title]

\* bars of consecutive trading days 1..k, oldest first, with the given closes
BarLists(closes, n) ==
    UNION {{[i \in 1..k |-> Bar(i, 105, c[i])] : c \in [1..k -> closes]} : k \in 0..n}

\* news answers of the fetch specification
PublishedAtValues ==
    {JsonTime("iso_z", Time(1, 570, 15)), JsonTime("iso_z", Time(2, 605, 40)),
     JsonTime("iso_frac", Time(1, 570, 15)), JsonNull, JsonAbsent}

TitleValues ==
    {JsonText("Shares plunge on weak outlook"), JsonText("Modest gains reported"),
     JsonNull, JsonAbsent}

NewsAnswers ==
    NewsFailures \cup {NewsBody("error", <<>>)}
    \cup {NewsBody("ok", a) :
            a \in SeqsUpTo({Article(p, w) : p \in PublishedAtValues, w \in TitleValues},
                           MaxArticles)}

\* answers of the dashboard specification
CtlArticles ==
    {Article(JsonTime("iso_z", Time(1, 570, 15)), JsonText("Shares plunge on weak outlook")),
     Article(JsonTime("iso_z", Time(2, 605, 40)), JsonText("Modest gains reported"))}

CtlNewsAnswers ==
    NewsFailures \cup {NewsBody("error", <<>>)}
    \cup {NewsBody("ok", a) : a \in SeqsUpTo(CtlArticles, CtlMaxArticles)}

CtlStockAnswers ==
    {StockFailure} \cup {StockTable(b) : b \in BarLists({100}, CtlMaxBars)}

\* inputs of the render specification
RenderHeadlines ==
    SeqsUpTo({<<t, w, Polarity(w)>> : t \in SampleTimes, w \in SampleTitles}, MaxHeadlines)

RenderStock == {get_stock_data(StockTable(b)) : b \in BarLists({100, 110, 145}, MaxBars)}

---------------------------------------------------------------------------
(* The dashboard: main(). *)

NoAnswer == [kind |-> "none"]

Hidden == [kind |-> "none"]

\* line 207: main's local `company`, fixed for the length of a run
company == companies[selected_ticker]

\* the orchestration calls of lines 211-241, none of which has a handler of its own
RenderSteps == {"advice", "metrics", "chart", "table"}

\* a script run draws the page anew: the output of the run before is gone
ClearDisplay ==
    /\ advice' = <<>>
    /\ metrics' = Hidden
    /\ chart' = Hidden
    /\ table' = Hidden
    /\ error' = ""

\* a run in which the Analyze button is not pressed (a widget changed)
Rerun ==
    /\ button' = FALSE
    /\ ClearDisplay
    /\ news' = NoAnswer
    /\ prices' = NoAnswer
    /\ newsRequests' = 0
    /\ stockRequests' = 0
    /\ UNCHANGED <<companies, secret_key, pc, headlines, sentiment_df, stock_df>>

Init ==
    /\ companies = Registry
    /\ secret_key \in BOOLEAN
    /\ sidebar_key = FALSE
    /\ selected_sector = "All"
    /\ selected_ticker = Head(filtered_companies(Registry, "All"))
    /\ button = FALSE
    /\ pc = "idle"
    /\ news = NoAnswer
    /\ prices = NoAnswer
    /\ headlines = <<>>
    /\ sentiment_df = <<>>
    /\ stock_df = <<>>
    /\ advice = <<>>
    /\ metrics = Hidden
    /\ chart = Hidden
    /\ table = Hidden
    /\ error = ""
    /\ newsRequests = 0
    /\ stockRequests = 0

\* lines 185-188: the key field is drawn only while no key is configured; the
\* user types a key into it or empties it
EnterKey ==
    /\ pc = "idle"
    /\ ~secret_key
    /\ sidebar_key' = ~sidebar_key
    /\ Rerun
    /\ UNCHANGED <<selected_sector, selected_ticker>>

\* lines 190-202: a new sector draws the company selectbox with new options, at
\* its first option
SelectSector ==
    /\ pc = "idle"
    /\ \E s \in Sectors(companies) \ {selected_sector} :
          /\ selected_sector' = s
          /\ selected_ticker' = Head(filtered_companies(companies, s))
    /\ Rerun
    /\ UNCHANGED sidebar_key

\* lines 198-202
SelectCompany ==
    /\ pc = "idle"
    /\ \E i \in 1..Len(filtered_companies(companies, selected_sector)) :
          /\ filtered_companies(companies, selected_sector)[i] # selected_ticker
          /\ selected_ticker' = filtered_companies(companies, selected_sector)[i]
    /\ Rerun
    /\ UNCHANGED <<sidebar_key, selected_sector>>

\* no handler: the exception ends the script
Unhandled ==
    /\ error' = error
    /\ pc' = "terminated"

\* lines 243-245: the handler of main's try
Handler ==
    /\ error' = "Analysis error"
    /\ pc' = "idle"

\* lines 204-207: the button is pressed; without a key the body is skipped
ClickAnalyze ==
    /\ pc = "idle"
    /\ button' = TRUE
    /\ advice' = <<>>
    /\ metrics' = Hidden
    /\ chart' = Hidden
    /\ table' = Hidden
    /\ news' = NoAnswer
    /\ prices' = NoAnswer
    /\ newsRequests' = 0
    /\ stockRequests' = 0
    /\ IF ~api_key
       THEN /\ pc' = "idle"
            /\ error' = ""
       ELSE IF selected_ticker \in DOMAIN companies
       THEN /\ pc' = "news"
            /\ error' = ""
       ELSE Handler
    /\ UNCHANGED <<companies, secret_key, sidebar_key, selected_sector,
                   selected_ticker, headlines, sentiment_df, stock_df>>

\* the fetch with one more attempt after a failed request
DoFetchNewsRetry(answer) ==
    /\ pc = "news"
    /\ news' = answer
    /\ newsRequests' = newsRequests + NewsRequestsIssued(api_key)
    /\ headlines' = fetch_news_headlines(api_key, answer)
    /\ sentiment_df' = analyze_sentiment(fetch_news_headlines(api_key, answer))
    /\ pc' = IF answer.kind # "json" /\ newsRequests = 0 THEN "news" ELSE "stock"
    /\ UNCHANGED <<companies, secret_key, sidebar_key, selected_sector,
                   selected_ticker, button, prices, stock_df, advice,
                   metrics, chart, table, error, stockRequests>>

\* lines 208-209: fetch_news_headlines, then analyze_sentiment
DoFetchNews(answer) ==
    /\ pc = "news"
    /\ news' = answer
    /\ newsRequests' = newsRequests + NewsRequestsIssued(api_key)
    /\ headlines' = fetch_news_headlines(api_key, answer)
    /\ sentiment_df' = analyze_sentiment(fetch_news_headlines(api_key, answer))
    /\ pc' = "stock"
    /\ UNCHANGED <<companies, secret_key, sidebar_key, selected_sector,
                   selected_ticker, button, prices, stock_df, advice,
                   metrics, chart, table, error, stockRequests>>

FetchNews == \E answer \in CtlNewsAnswers : DoFetchNews(answer)

\* the market-data fetch without its except clause: the exception reaches main
DoGetStockRaises(answer) ==
    /\ pc = "stock"
    /\ prices' = answer
    /\ stockRequests' = stockRequests + 1
    /\ IF answer.kind = "table"
       THEN /\ stock_df' = get_stock_data(answer)
            /\ pc' = "advice"
            /\ error' = error
       ELSE /\ stock_df' = stock_df
            /\ Handler
    /\ UNCHANGED <<companies, secret_key, sidebar_key, selected_sector,
                   selected_ticker, button, news, headlines, sentiment_df,
                   advice, metrics, chart, table, newsRequests>>

\* line 210: get_stock_data
DoGetStock(answer) ==
    /\ pc = "stock"
    /\ prices' = answer
    /\ stockRequests' = stockRequests + 1
    /\ stock_df' = get_stock_data(answer)
    /\ pc' = "advice"
    /\ UNCHANGED <<companies, secret_key, sidebar_key, selected_sector,
                   selected_ticker, button, news, headlines, sentiment_df,
                   advice, metrics, chart, table, error, newsRequests>>

GetStock == \E answer \in CtlStockAnswers : DoGetStock(answer)

\* lines 211-213
Advise ==
    /\ pc = "advice"
    /\ advice' = get_trading_advice(sentiment_df, stock_df)
    /\ pc' = "metrics"
    /\ UNCHANGED <<companies, secret_key, sidebar_key, selected_sector,
                   selected_ticker, button, news, prices, headlines,
                   sentiment_df, stock_df, metrics, chart, table, error,
                   newsRequests, stockRequests>>

\* lines 215-224
ShowMetrics ==
    /\ pc = "metrics"
    /\ \E a \in AverageSentimentCell(sentiment_df), p \in StockPerformanceCell(stock_df) :
          metrics' = [kind |-> "metrics", average |-> a,
                      analyzed |-> HeadlinesAnalyzedCell(headlines), performance |-> p]
    /\ pc' = "chart"
    /\ UNCHANGED <<companies, secret_key, sidebar_key, selected_sector,
                   selected_ticker, button, news, prices, headlines,
                   sentiment_df, stock_df, advice, chart, table, error,
                   newsRequests, stockRequests>>

\* lines 226-230
ShowChart ==
    /\ pc = "chart"
    /\ chart' = ChartOrNotice(create_visualization(stock_df, sentiment_df, company.name))
    /\ pc' = "table"
    /\ UNCHANGED <<companies, secret_key, sidebar_key, selected_sector,
                   selected_ticker, button, news, prices, headlines,
                   sentiment_df, stock_df, advice, metrics, table, error,
                   newsRequests, stockRequests>>

\* lines 232-241
ShowTable ==
    /\ pc = "table"
    /\ table' = HeadlineTable(sentiment_df)
    /\ pc' = "idle"
    /\ UNCHANGED <<companies, secret_key, sidebar_key, selected_sector,
                   selected_ticker, button, news, prices, headlines,
                   sentiment_df, stock_df, advice, metrics, chart, error,
                   newsRequests, stockRequests>>

\* a streamlit, pandas or plotly call of lines 211-241 raises: both fetchers
\* catch every Exception themselves, these calls do not
Raise ==
    /\ pc \in RenderSteps
    /\ Handler
    /\ UNCHANGED <<companies, secret_key, sidebar_key, selected_sector,
                   selected_ticker, button, news, prices, headlines,
                   sentiment_df, stock_df, advice, metrics, chart, table,
                   newsRequests, stockRequests>>

RunStep ==
    FetchNews \/ GetStock \/ Advise \/ ShowMetrics \/ ShowChart \/ ShowTable \/ Raise

Next ==
    \/ EnterKey
    \/ SelectSector
    \/ SelectCompany
    \/ ClickAnalyze
    \/ FetchNews
    \/ GetStock
    \/ Advise
    \/ ShowMetrics
    \/ ShowChart
    \/ ShowTable
    \/ Raise

Spec == Init /\ [][Next]_vars

\* the script is one synchronous thread: a run that has started takes its next step
FairSpec == Spec /\ WF_vars(RunStep)

---------------------------------------------------------------------------
(* fetch_news_headlines on every answer, from the point where main calls it. *)

InitFetch ==
    /\ companies = Registry
    /\ secret_key = TRUE
    /\ sidebar_key = FALSE
    /\ selected_sector = "All"
    /\ selected_ticker = "AAPL"
    /\ button = TRUE
    /\ pc = "news"
    /\ news = NoAnswer
    /\ prices = NoAnswer
    /\ headlines = <<>>
    /\ sentiment_df = <<>>
    /\ stock_df = <<>>
    /\ advice = <<>>
    /\ metrics = Hidden
    /\ chart = Hidden
    /\ table = Hidden
    /\ error = ""
    /\ newsRequests = 0
    /\ stockRequests = 0

FetchAnyNews == \E answer \in NewsAnswers : DoFetchNews(answer)

NextFetch == FetchAnyNews

SpecFetch == InitFetch /\ [][NextFetch]_vars

---------------------------------------------------------------------------
(* The advisory, metrics, chart and table on every pair of fetched inputs,  *)
(* from the point where main has both.                                      *)

InitRender ==
    /\ companies = Registry
    /\ secret_key = TRUE
    /\ sidebar_key = FALSE
    /\ selected_sector = "All"
    /\ selected_ticker = "AAPL"
    /\ button = TRUE
    /\ pc = "advice"
    /\ news = NoAnswer
    /\ prices = NoAnswer
    /\ headlines \in RenderHeadlines
    /\ sentiment_df = analyze_sentiment(headlines)
    /\ stock_df \in RenderStock
    /\ advice = <<>>
    /\ metrics = Hidden
    /\ chart = Hidden
    /\ table = Hidden
    /\ error = ""
    /\ newsRequests = 1
    /\ stockRequests = 1

NextRender ==
    \/ Advise
    \/ ShowMetrics
    \/ ShowChart
    \/ ShowTable

SpecRender == InitRender /\ [][NextRender]_vars

---------------------------------------------------------------------------
(* Properties. *)

Sentiments == Column(sentiment_df, "sentiment")

\* the sum of the sentiments of the rows with index in S
RECURSIVE SentimentOver(_)
SentimentOver(S) ==
    IF S = {} THEN 0
    ELSE LET i == CHOOSE j \in S : TRUE
         IN  sentiment_df[i].sentiment + SentimentOver(S \ {i})

RowsOnDay(d) == {i \in 1..Len(sentiment_df) : sentiment_df[i].date.day = d}

NewsFailed ==
    \/ news.kind \in {"request_exception", "http_error"}
    \/ news.kind = "json" /\ news.status # "ok"

StockFailed ==
    \/ prices.kind = "exception"
    \/ prices.kind = "table" /\ prices.bars = <<>>

\* C1: with at least one sentiment record of mean s and at least 2 price bars, the
\* advice is BUYING ADVISED/green iff s > 0.05, SELLING ADVISED/red iff s < 0.04 and
\* HOLD POSITION/orange iff 0.04 <= s <= 0.05, and it is one of the three.
C1_AdviceFollowsMean ==
    (advice # <<>> /\ Len(sentiment_df) > 0 /\ Len(stock_df) >= 2) =>
        LET total == SumSeq(Sentiments)
            n == Len(sentiment_df)
        IN  /\ advice \in {<<"BUYING ADVISED", "green">>, <<"SELLING ADVISED", "red">>,
                           <<"HOLD POSITION", "orange">>}
            /\ (advice = <<"BUYING ADVISED", "green">>) <=> (total > 5 * n)
            /\ (advice = <<"SELLING ADVISED", "red">>) <=> (total < 4 * n)
            /\ (advice = <<"HOLD POSITION", "orange">>) <=> (4 * n <= total /\ total <= 5 * n)

\* two records of mean exactly 0.05 and two bars: HOLD
C1_Witness ==
    /\ advice = <<"HOLD POSITION", "orange">>
    /\ Len(sentiment_df) = 2
    /\ SumSeq(Sentiments) = 10
    /\ Len(stock_df) = 2

\* C2: the advice is NO ADVICE/gray exactly when there is no sentiment record or
\* there are fewer than 2 price bars (none included), whatever the other input holds.
C2_NoAdviceIffInsufficient ==
    advice # <<>> =>
        /\ (advice = <<"NO ADVICE", "gray">>) <=> (Len(sentiment_df) = 0 \/ Len(stock_df) < 2)
        /\ (advice[1] = "NO ADVICE") <=> (advice[2] = "gray")

\* sentiment records and a single bar: NO ADVICE
C2_Witness ==
    /\ advice = <<"NO ADVICE", "gray">>
    /\ Len(sentiment_df) = 2
    /\ Len(stock_df) = 1

\* the articles of the answer whose timestamp does not parse
Unparsable == {i \in 1..Len(news.articles) : strptime(news.articles[i]).raised # "none"}

\* the tuples of the articles with index in 1..n whose timestamp parses, in order
RECURSIVE ParsedUpTo(_)
ParsedUpTo(n) ==
    IF n = 0 THEN <<>>
    ELSE IF n \in Unparsable THEN ParsedUpTo(n - 1)
    ELSE Append(ParsedUpTo(n - 1),
                <<news.articles[n].publishedAt.t, news.articles[n].title.text,
                  Polarity(news.articles[n].title.text)>>)

\* C3: an "ok" answer of N articles with string titles, exactly one of which has a
\* timestamp that does not parse, gives the N-1 headlines of the others, in order.
C3_OnlyTheBadArticleIsSkipped ==
    (/\ pc = "stock"
     /\ news.kind = "json"
     /\ news.status = "ok"
     /\ \A i \in 1..Len(news.articles) : news.articles[i].title.json = "string"
     /\ Cardinality(Unparsable) = 1)
    => /\ Len(headlines) = Len(news.articles) - 1
       /\ headlines = ParsedUpTo(Len(news.articles))

\* C4: an Analyze press without a key still fetches the market data and renders
\* the advisory, the metrics and the chart, with no headlines and no news request.
C4_OnlyTheNewsFetchIsAborted ==
    (button /\ ~api_key /\ pc = "idle" /\ error = "") =>
        /\ newsRequests = 0
        /\ headlines = <<>>
        /\ stockRequests = 1
        /\ advice # <<>>
        /\ metrics # Hidden
        /\ chart # Hidden

C5_State ==
    /\ NewsFailed => /\ headlines = <<>>
                     /\ sentiment_df = <<>>
                     /\ pc = "stock" \/ stockRequests = 1
    /\ (NewsFailed /\ stockRequests = 1) => stock_df = get_stock_data(prices)
    /\ StockFailed => /\ stock_df = <<>>
                      /\ newsRequests = 1
                      /\ headlines = fetch_news_headlines(TRUE, news)
    /\ error # "" => (newsRequests = 1 /\ stockRequests = 1)
    /\ advice # <<>> => advice = get_trading_advice(sentiment_df, stock_df)
    /\ chart # Hidden =>
          chart = ChartOrNotice(create_visualization(stock_df, sentiment_df, company.name))

\* C5: a failed fetch leaves its own data empty and goes on to the next call: the
\* news step always hands over to the market-data step and the market-data step to
\* the advisory, with no error raised, and the advisory and the chart are computed
\* from the other fetch's result.
C5_FailureDegradesOneSource ==
    /\ []C5_State
    /\ [][(pc = "news" => (pc' = "stock" /\ error' = ""))
          /\ (pc = "stock" => (pc' = "advice" /\ error' = ""))]_vars

\* the news request failed, the bars arrived and are charted
C5_Witness ==
    /\ news.kind = "request_exception"
    /\ Len(stock_df) = 2
    /\ advice = <<"NO ADVICE", "gray">>
    /\ chart.kind = "plotly_chart"
    /\ Len(chart.fig.row1.close) = 2
    /\ pc = "idle"

\* C6: the script is always at a point of main, never ended by an exception; an
\* exception shows the analysis error and returns to idle; a run that started
\* comes back to idle; and idle accepts the next Analyze press.
C6_NoErrorIsFatal ==
    /\ [](pc \in {"idle", "news", "stock"} \cup RenderSteps)
    /\ [](error \in {"", "Analysis error"})
    /\ [][(error = "" /\ error' # "") => (pc \in RenderSteps /\ pc' = "idle")]_vars
    /\ [](pc = "idle" => ENABLED ClickAnalyze)
    /\ (pc # "idle") ~> (pc = "idle")

\* the chart call raised after the advisory and the metrics were shown
C6_Witness ==
    /\ error = "Analysis error"
    /\ pc = "idle"
    /\ advice # <<>>
    /\ metrics # Hidden
    /\ chart = Hidden

\* C7: a run issues at most one news request and at most one market-data request:
\* none before the fetch step, exactly one after it, failed or not.
C7_NoRetries ==
    /\ newsRequests <= 1
    /\ stockRequests <= 1
    /\ news # NoAnswer => newsRequests = 1
    /\ prices # NoAnswer => stockRequests = 1
    /\ pc = "news" => newsRequests = 0
    /\ pc \in {"news", "stock"} => stockRequests = 0

\* both calls failed and the run went through with one request each
C7_Witness ==
    /\ news.kind = "http_error"
    /\ prices.kind = "exception"
    /\ table.kind = "info"
    /\ newsRequests = 1
    /\ stockRequests = 1

\* C8: the notice replaces the chart exactly when there is no price bar; a chart
\* holds every bar in its candlestick row, and its sentiment row is empty without
\* sentiment records and else has one point per calendar day, in ascending day
\* order, at the mean of that day's records.
C8_ChartFollowsData ==
    chart # Hidden =>
        /\ (chart.kind = "warning") <=> (Len(stock_df) = 0)
        /\ (chart.kind = "plotly_chart") <=> (Len(stock_df) > 0)
        /\ chart.kind = "warning" => chart.text = "Insufficient data for visualization."
        /\ chart.kind = "plotly_chart" =>
              LET row1 == chart.fig.row1
                  row2 == chart.fig.row2
              IN  /\ Len(row1.x) = Len(stock_df)
                  /\ \A i \in 1..Len(stock_df) :
                        /\ row1.x[i] = stock_df[i].date
                        /\ row1.open[i] = stock_df[i].Open
                        /\ row1.high[i] = stock_df[i].High
                        /\ row1.low[i] = stock_df[i].Low
                        /\ row1.close[i] = stock_df[i].Close
                  /\ Len(sentiment_df) = 0 => row2 = <<>>
                  /\ {row2[k].date : k \in 1..Len(row2)}
                        = {sentiment_df[i].date.day : i \in 1..Len(sentiment_df)}
                  /\ \A j, k \in 1..Len(row2) : j < k => row2[j].date < row2[k].date
                  /\ \A k \in 1..Len(row2) :
                        /\ row2[k].count = Cardinality(RowsOnDay(row2[k].date))
                        /\ row2[k].sum = SentimentOver(RowsOnDay(row2[k].date))

\* a record of the second day, then two of the first at -0.40 and 0.06: the points
\* are the first day at -0.34 / 2 and the second day at 0.04
C8_Witness ==
    /\ chart.kind = "plotly_chart"
    /\ Len(chart.fig.row1.close) = 2
    /\ Len(sentiment_df) = 3
    /\ sentiment_df[1].date.day = 2
    /\ sentiment_df[2].date.day = 1
    /\ sentiment_df[3].date.day = 1
    /\ Len(chart.fig.row2) = 2
    /\ chart.fig.row2[1] = [date |-> 1, sum |-> -34, count |-> 2]
    /\ chart.fig.row2[2] = [date |-> 2, sum |-> 4, count |-> 1]

\* C9: the average cell is "N/A" exactly without sentiment records and else the
\* mean to 2 decimals; the headline count is the number of fetched headlines and of
\* table rows; the performance cell is missing exactly below 2 bars and else
\* (last_close / first_close - 1) * 100 to 1 decimal.
C9_MetricsFollowData ==
    metrics # Hidden =>
        LET n == Len(sentiment_df)
            first == stock_df[1].Close
            last == stock_df[Len(stock_df)].Close
        IN  /\ (metrics.average.text = "N/A") <=> (n = 0)
            /\ n > 0 => /\ metrics.average.text = "number"
                        /\ 2 * Abs(metrics.average.value * n - SumSeq(Sentiments)) <= n
            /\ metrics.analyzed = Len(headlines)
            /\ table.kind = "dataframe" => Len(table.rows) = metrics.analyzed
            /\ table.kind = "info" => metrics.analyzed = 0
            /\ (~metrics.performance.shown) <=> (Len(stock_df) < 2)
            /\ metrics.performance.shown =>
                  2 * Abs(metrics.performance.value * first - 1000 * (last - first)) <= first
            /\ (Len(stock_df) = 2 /\ first = 100 /\ last = 110) =>
                  metrics.performance.value = 100

\* closes 145 then 110: -24.1%, beside a mean of -0.17 over two headlines
C9_Witness ==
    /\ metrics # Hidden
    /\ Len(stock_df) = 2
    /\ stock_df[1].Close = 145
    /\ stock_df[2].Close = 110
    /\ metrics.performance.value = -241
    /\ metrics.average.text = "number"
    /\ metrics.average.value = -17
    /\ metrics.analyzed = 2
    /\ table.kind = "dataframe"

\* C10: the registry never changes, and what a run shows rests on what that run
\* fetched: every headline comes from an article of this run's answer, no more
\* headlines than articles, the bars are this run's bars, and the advisory, the
\* metrics, the chart and the table are those of these sets.
C10_PerRunData ==
    /\ companies = Registry
    /\ news # NoAnswer =>
          /\ (news.kind # "json" \/ news.status # "ok") => headlines = <<>>
          /\ (news.kind = "json" /\ news.status = "ok") =>
                /\ Len(headlines) <= Len(news.articles)
                /\ \A i \in 1..Len(headlines) : \E j \in 1..Len(news.articles) :
                      /\ news.articles[j].publishedAt.json = "string"
                      /\ news.articles[j].title.json = "string"
                      /\ headlines[i][1] = news.articles[j].publishedAt.t
                      /\ headlines[i][2] = news.articles[j].title.text
          /\ Len(sentiment_df) = Len(headlines)
          /\ \A i \in 1..Len(headlines) :
                /\ sentiment_df[i].date = headlines[i][1]
                /\ sentiment_df[i].headline = headlines[i][2]
                /\ sentiment_df[i].sentiment = headlines[i][3]
    /\ prices # NoAnswer =>
          /\ prices.kind # "table" => stock_df = <<>>
          /\ prices.kind = "table" =>
                /\ Len(stock_df) = Len(prices.bars)
                /\ \A i \in 1..Len(stock_df) :
                      /\ stock_df[i].date = prices.bars[i].date
                      /\ stock_df[i].Close = prices.bars[i].Close
    /\ advice # <<>> =>
          /\ news # NoAnswer
          /\ prices # NoAnswer
          /\ advice = get_trading_advice(sentiment_df, stock_df)
    /\ metrics # Hidden => metrics.analyzed = Len(headlines)
    /\ chart # Hidden => /\ chart.kind = "warning" <=> stock_df = <<>>
                         /\ chart.kind = "plotly_chart" =>
                               chart.fig.row1.close = Column(stock_df, "Close")
    /\ table # Hidden => /\ table.kind = "info" <=> headlines = <<>>
                         /\ table.kind = "dataframe" => Len(table.rows) = Len(headlines)

\* a later run for another company has fetched its one headline, while two bars
\* of the run before still lie in stock_df
C10_Witness ==
    /\ pc = "stock"
    /\ selected_ticker = "TSLA"
    /\ news.kind = "json"
    /\ news.status = "ok"
    /\ Len(headlines) = 1
    /\ prices = NoAnswer
    /\ Len(stock_df) = 2

=============================================================================
